---- MODULE Spec2Model ----
(***************************************************************************)
(* Model of sagetv_nfo_generator.py (class NFOGeneratorUtility): the       *)
(* generator that turns the SageTV media feed into a tree of symbolic      *)
(* links and .nfo sidecars, remembers what it produced in sagex_state.json *)
(* and sweeps stale links at the start of the next run.                    *)
(*                                                                         *)
(* Text is modelled as a sequence of one-character strings, a path of the  *)
(* output tree as [dir |-> sequence of components, name |-> text], a       *)
(* source media file as [stem |-> text, ext |-> text, absolute |-> flag]:  *)
(* a file of the one media folder, or of the working directory when the    *)
(* path is relative. Link targets are paths of source files.               *)
(***************************************************************************)
EXTENDS Integers, Sequences, FiniteSets, TLC

(***************************************************************************)
(* Bounds of the model.                                                    *)
(***************************************************************************)
\* number of complete runs of the generator that are explored
MaxRuns == 2
\* number of changes the environment makes to the disk, before and between the runs
MaxEnv == 2

\* config.get('PAGE_SIZE', 100), scaled to the two identity keys of the model
PAGE_SIZE == 2

(***************************************************************************)
(* Program constants.                                                      *)
(***************************************************************************)
\* config.get('MAX_FILES_TO_PROCESS', 0): 0 means no limit
MAX_FILES_TO_PROCESS == 0

\* the largest limit of records to process that a configuration sets
MaxLimit == 1

(***************************************************************************)
(* Text.                                                                   *)
(***************************************************************************)
Digits == <<"0", "1", "2", "3", "4", "5", "6", "7", "8", "9">>

DigitVal(c) == (CHOOSE i \in 1..10 : Digits[i] = c) - 1

\* int(text) for a run of decimal digits
RECURSIVE DigitsToInt(_)
DigitsToInt(s) ==
    IF s = <<>> THEN 0
    ELSE 10 * DigitsToInt(SubSeq(s, 1, Len(s) - 1)) + DigitVal(s[Len(s)])

\* str(n) for n >= 0
RECURSIVE IntToText(_)
IntToText(n) ==
    IF n < 10 THEN <<Digits[n + 1]>>
    ELSE IntToText(n \div 10) \o <<Digits[(n % 10) + 1]>>

\* f"{n}": the number without padding
Unpadded(n) == IntToText(n)

\* f"{n:02d}"
Pad2(n) ==
    IF n < 0 THEN <<"-">> \o IntToText(0 - n)
    ELSE IF n < 10 THEN <<"0">> \o IntToText(n)
    ELSE IntToText(n)

\* the whitespace that str.strip() removes: the blank, and the tab for the
\* other whitespace characters
Whitespace == {" ", "\t"}

\* str.strip(): leading and trailing whitespace removed
RECURSIVE LStrip(_)
LStrip(s) == IF s # <<>> /\ Head(s) \in Whitespace THEN LStrip(Tail(s)) ELSE s

RECURSIVE RStrip(_)
RStrip(s) ==
    IF s # <<>> /\ s[Len(s)] \in Whitespace THEN RStrip(SubSeq(s, 1, Len(s) - 1)) ELSE s

Strip(s) == LStrip(RStrip(s))

\* str.rstrip('. ')
RECURSIVE RStripDotSpace(_)
RStripDotSpace(s) ==
    IF s # <<>> /\ s[Len(s)] \in {".", " "}
    THEN RStripDotSpace(SubSeq(s, 1, Len(s) - 1))
    ELSE s

illegal_chars == {"<", ">", ":", "\"", "/", "\\", "|", "?", "*"}

UnknownMedia == <<"U", "n", "k", "n", "o", "w", "n", "M", "e", "d", "i", "a">>

\* the while loop of _clean_directory_name without the strip() of line 142
TrimTailNoStrip(s) == RStripDotSpace(s)

\* the while loop of _clean_directory_name
RECURSIVE TrimTail(_)
TrimTail(s) ==
    IF s # <<>> /\ s[Len(s)] \in {".", " "}
    THEN TrimTail(Strip(RStripDotSpace(s)))
    ELSE s

\* line 143: the cleaned name, or "UnknownMedia" for an empty one
OrUnknownMedia(cleaned_name) == IF cleaned_name # <<>> THEN cleaned_name ELSE UnknownMedia

CleanDirectoryName(name) ==
    OrUnknownMedia(TrimTail(Strip([i \in 1..Len(name) |->
                        IF name[i] \in illegal_chars THEN "-" ELSE name[i]])))

(***************************************************************************)
(* _parse_sxxeyy: re.search(r'[sS][\.\-]?(\d+)\s*[eE][\.\-]?(\d+)', name). *)
(* NoMatch stands for None.                                                *)
(***************************************************************************)
NoMatch == <<>>

\* length of the longest run of characters of set cs that starts at s[i]
RECURSIVE RunLen(_, _, _)
RunLen(s, i, cs) ==
    IF i <= Len(s) /\ s[i] \in cs THEN 1 + RunLen(s, i + 1, cs) ELSE 0

DigitSet == {Digits[i] : i \in 1..10}

\* the position after an optional [\.\-] at s[i]
SkipSeparator(s, i) == IF i <= Len(s) /\ s[i] \in {".", "-"} THEN i + 1 ELSE i

\* (\d+) at the end of the pattern: n2 digits from position c
EpisodeDigits(s, c, n2, season) ==
    IF n2 > 0 THEN <<season, DigitsToInt(SubSeq(s, c, c + n2 - 1))>> ELSE NoMatch

EpisodeFrom(s, c, season) == EpisodeDigits(s, c, RunLen(s, c, DigitSet), season)

\* [eE][\.\-]?(\d+) from position b
EpisodePart(s, b, season) ==
    IF b <= Len(s) /\ s[b] \in {"e", "E"}
    THEN EpisodeFrom(s, SkipSeparator(s, b + 1), season)
    ELSE NoMatch

\* (\d+)\s* from position a, n1 digits long, and the rest of the pattern
SeasonDigits(s, a, n1) ==
    IF n1 > 0
    THEN EpisodePart(s, a + n1 + RunLen(s, a + n1, {" "}),
                     DigitsToInt(SubSeq(s, a, a + n1 - 1)))
    ELSE NoMatch

SeasonFrom(s, a) == SeasonDigits(s, a, RunLen(s, a, DigitSet))

\* the match that starts at position i, or NoMatch
MatchAt(s, i) ==
    IF i <= Len(s) /\ s[i] \in {"s", "S"}
    THEN SeasonFrom(s, SkipSeparator(s, i + 1))
    ELSE NoMatch

\* re.search: the leftmost match
RECURSIVE SearchFrom(_, _)
FirstMatch(s, i, m) == IF m # NoMatch THEN m ELSE SearchFrom(s, i + 1)

SearchFrom(s, i) ==
    IF i > Len(s) THEN NoMatch ELSE FirstMatch(s, i, MatchAt(s, i))

ParseSxxEyy(filename) == SearchFrom(filename, 1)

(***************************************************************************)
(* Names and paths.                                                        *)
(***************************************************************************)
Mpg == <<".", "m", "p", "g">>
Mkv == <<".", "m", "k", "v">>
Mp4 == <<".", "m", "p", "4">>
Avi == <<".", "a", "v", "i">>
Ts  == <<".", "t", "s">>
Wmv == <<".", "w", "m", "v">>
NfoExt == <<".", "n", "f", "o">>

\* _resolve_actual_file_path: the alternatives, in probing order
common_extensions == <<Mkv, Mp4, Avi, Ts, Mpg>>
\* _process_tv_show, _process_movie: the suffixes probed for a collision
collision_suffixes == <<Mpg, Mkv, Mp4, Ts, Avi>>

\* self.root_path / "TV Shows" and self.root_path / "Movies", relative to the root
tv_shows_root == << <<"T", "V", " ", "S", "h", "o", "w", "s">> >>
movies_root == << <<"M", "o", "v", "i", "e", "s">> >>
\* config.get('FLAT_MOVIE_STRUCTURE', False)
flat_movie_structure == FALSE

SeasonWord == <<"S", "e", "a", "s", "o", "n", " ">>
EpisodeWord == <<"E", "p", "i", "s", "o", "d", "e">>
TvShowNfo == <<"t", "v", "s", "h", "o", "w", ".", "n", "f", "o">>
Dash == <<" ", "-", " ">>

\* the inputs of the model: two identity keys, one title, a plot for each key
Key7 == <<"7">>
Key42 == <<"4", "2">>
Keys == {Key7, Key42}
ShowTitle == <<"S", "h", "o", "w">>
StemSE == <<"S", "h", "o", "w", ".", "S", "0", "1", "E", "0", "2">>
StemA == <<"a">>
PlotOf(id) == IF id = Key7 THEN "plot of 7" ELSE "plot of 42"

\* an absolute path of the media folder
Src(stem, ext) == [stem |-> stem, ext |-> ext, absolute |-> TRUE]
\* a path relative to the working directory
Relative(stem, ext) == [stem |-> stem, ext |-> ext, absolute |-> FALSE]
\* None, for a path
NoPath == Src(<<>>, <<>>)
\* the media files that may exist in the media folder
SourcePaths == {Src(StemSE, Mpg), Src(StemSE, Mkv), Src(StemSE, Wmv), Src(StemA, Wmv)}

\* Path.name of a source file
FileName(p) == p.stem \o p.ext

OutPath(dir, name) == [dir |-> dir, name |-> name]

\* a directory and all its parents, as mkdir(parents=True) creates them
Parents(dir) == {SubSeq(dir, 1, i) : i \in 1..Len(dir)}

\* an entry of the output tree: a symbolic link or a regular file
NoContent == [tag |-> "", title |-> <<>>, showtitle |-> <<>>, season |-> <<>>,
              episode |-> <<>>, plot |-> "", year |-> <<>>]
Link(target) == [kind |-> "link", target |-> target, content |-> NoContent]
File(content) == [kind |-> "file", target |-> NoPath, content |-> content]
\* a file that the tool did not write
UserContent == [NoContent EXCEPT !.tag = "user"]

(***************************************************************************)
(* _get_comparable_path: the canonical form of a path, lower-cased on      *)
(* Windows only.                                                           *)
(***************************************************************************)
UpperLetters == <<"S", "E", "A">>
LowerLetters == <<"s", "e", "a">>
OnWindows == FALSE

LowerChar(c) ==
    IF \E i \in 1..Len(UpperLetters) : UpperLetters[i] = c
    THEN LowerLetters[CHOOSE i \in 1..Len(UpperLetters) : UpperLetters[i] = c]
    ELSE c

Lower(s) == [i \in 1..Len(s) |-> LowerChar(s[i])]

GetComparablePath(p) ==
    IF p = NoPath THEN NoPath
    ELSE IF OnWindows THEN Src(Lower(p.stem), Lower(p.ext))
    ELSE p

(***************************************************************************)
(* The state of the program and of the disk.                               *)
(***************************************************************************)
VARIABLES
    srcFiles,            \* the media files that exist in the media folder
    linkPerm,            \* whether os.symlink is permitted to this process
    fs,                  \* the entries of the output tree: path -> Link or File
    dirs,                \* the directories of the output tree
    state_file,          \* the content of sagex_state.json
    previous_state,      \* self.previous_state
    current_state,       \* self.current_state
    processed_tv_shows,  \* self.processed_tv_shows
    pc,                  \* where the program is: idle, loaded, swept, fetch, records, save
    start,               \* run_generator: start
    total_generated,     \* run_generator: total_generated
    page_len,            \* run_generator: len(media_files), the page being processed
    idx,                 \* run_generator: position of the for loop in media_files
    seen,                \* the identity keys of the records the for loop has taken up in this run
    movies,              \* whether the library the server reports holds movies or episodes
    runs,                \* completed runs
    env,                 \* changes of the environment so far
    state_form,          \* what sagex_state.json is: absent, mapping, truncated, list, unreadable
    mkdirPerm,           \* whether the root directories can be created
    max_files_to_process, \* the configured limit of records to process, 0 for none
    exit,                \* how the last process ended: none, saved, fatal, killed
    hist,                \* what this run was fed and whether it changed the tree, and the
                         \* same of the last run that saved
    call,                \* a helper method called on its own: the method and its arguments
    result               \* the value that the call returned

vars == <<srcFiles, linkPerm, fs, dirs, state_file, previous_state, current_state,
          processed_tv_shows, pc, start, total_generated, page_len, idx, seen,
          movies, runs, env, state_form, mkdirPerm, max_files_to_process, exit, hist, call, result>>

\* the empty mapping, {} in the code
EmptyMap == [k \in {} |-> NoPath]

\* d[key] = value
Put(d, key, value) == [k \in DOMAIN d \cup {key} |-> IF k = key THEN value ELSE d[k]]

\* os.remove(p)
Remove(f, p) == [q \in DOMAIN f \ {p} |-> f[q]]

\* Path.is_symlink()
IsSymlink(f, p) == p \in DOMAIN f /\ f[p].kind = "link"

\* Path.exists(): follows a symbolic link, so a link whose target is gone does not exist
Exists(f, p) == p \in DOMAIN f /\ (f[p].kind = "link" => f[p].target \in srcFiles)

\* os.readlink(p)
ReadLink(f, p) == f[p].target

\* Path(target).exists() for a link target
TargetExists(t) == t \in srcFiles

\* the part of the program's state that processing a record changes
World == [fs |-> fs, dirs |-> dirs, cs |-> current_state, shows |-> processed_tv_shows,
          ops |-> {}]

(***************************************************************************)
(* _load_state, _save_state, _ensure_root_directories                      *)
(***************************************************************************)
\* lines 109-116: no file and a file that json cannot parse give {}
LoadState == IF state_form = "mapping" THEN state_file ELSE EmptyMap

SaveState(cs) == cs

EnsureRootDirectories(d) == d \cup Parents(tv_shows_root) \cup Parents(movies_root)

(***************************************************************************)
(* _resolve_actual_file_path                                               *)
(***************************************************************************)
\* line 224: file_dir / (file_base_name + ext)
AlternativePath(original_path, ext) == [original_path EXCEPT !.ext = ext]

\* lines 223-227: the first alternative that is a file
RECURSIVE FirstAlternative(_, _)
FirstAlternative(original_path, exts) ==
    IF exts = <<>> THEN NoPath
    ELSE IF AlternativePath(original_path, Head(exts)) \in srcFiles
         THEN AlternativePath(original_path, Head(exts))
    ELSE FirstAlternative(original_path, Tail(exts))

\* the declared path and nothing else is looked at
ResolveDeclaredOnly(original_path) ==
    IF original_path \in srcFiles THEN original_path ELSE NoPath

ResolveActualFilePath(original_path) ==
    IF original_path \in srcFiles THEN original_path
    ELSE IF ~original_path.absolute \/ original_path.stem = <<>> THEN NoPath
    ELSE FirstAlternative(original_path, common_extensions)

(***************************************************************************)
(* _get_resolved_filename_base; None is the empty text                     *)
(***************************************************************************)
GetResolvedFilenameBaseForgets(media_file_id) == <<>>

GetResolvedFilenameBase(media_file_id) ==
    IF media_file_id \in DOMAIN previous_state
    THEN previous_state[media_file_id].resolved_filename_base
    ELSE <<>>

(***************************************************************************)
(* _generate_nfo_content and the content of tvshow.nfo: the fields that    *)
(* the sidecar carries (genre, runtime, directors and writers are copied   *)
(* the same way and left out).                                             *)
(***************************************************************************)
GenerateNfoContent(data, is_movie) ==
    IF is_movie
    THEN [tag |-> "movie", title |-> Strip(data.Title), showtitle |-> <<>>,
          season |-> <<>>, episode |-> <<>>, plot |-> data.Description,
          year |-> data.Year]
    ELSE [tag |-> "episodedetails",
          title |-> IF Strip(data.EpisodeName) # <<>> THEN Strip(data.EpisodeName)
                    ELSE Strip(data.Title),
          showtitle |-> data.Title,
          season |-> data.SeasonNumber, episode |-> data.EpisodeNumber,
          plot |-> data.Description, year |-> data.Year]

SeriesNfoContent(data) ==
    [tag |-> "tvshow", title |-> data.Title, showtitle |-> <<>>, season |-> <<>>,
     episode |-> <<>>, plot |-> data.Description, year |-> data.Year]

(***************************************************************************)
(* _create_series_nfo                                                      *)
(***************************************************************************)
CreateSeriesNfo(w, data, show_path) ==
    LET nfo_file == OutPath(show_path, TvShowNfo)
    IN  IF Exists(w.fs, nfo_file) THEN w
        ELSE [w EXCEPT !.dirs = @ \cup Parents(show_path),
                       !.fs = Put(@, nfo_file, File(SeriesNfoContent(data)))]

(***************************************************************************)
(* _create_media_files                                                     *)
(***************************************************************************)
\* the test of line 286, symlink_path.exists()
LinkPathOccupied(f, p) == Exists(f, p)

\* the test of line 287 takes every entry for a symbolic link
LinkPathIsLinkAlways(f, p) == TRUE

\* the test of line 287, symlink_path.is_symlink()
LinkPathIsLink(f, p) == IsSymlink(f, p)

\* the comparison of line 295 says that the link points somewhere else
TargetDiffersAlways(current_target, resolved_path) == TRUE

TargetDiffers(current_target, resolved_path) ==
    GetComparablePath(current_target) # GetComparablePath(resolved_path)

\* the test of line 328, not nfo_path.exists()
NfoMissingAlways(f, nfo_path) == TRUE

NfoMissing(f, nfo_path) == ~Exists(f, nfo_path)

\* os.symlink(target, p) succeeds: it is permitted and nothing, not even a
\* dangling link, is at p
SymlinkSucceeds(f, p) == linkPerm /\ p \notin DOMAIN f

\* lines 323-333 without lines 336-341: the sidecar, and no state entry
WriteNfoOnly(w, data, resolved_path, symlink_path, nfo_path, filename_base) ==
    IF ~Exists(w.fs, nfo_path)
    THEN [w EXCEPT !.fs = Put(@, nfo_path, File(GenerateNfoContent(data, data.IsMovie))),
                   !.ops = @ \cup {"write_nfo"}]
    ELSE w

\* lines 323-341: the sidecar, written only when missing, and the state entry
WriteNfoAndState(w, data, resolved_path, symlink_path, nfo_path, filename_base) ==
    LET nfo_content == GenerateNfoContent(data, data.IsMovie)
        w1 == IF NfoMissing(w.fs, nfo_path)
              THEN [w EXCEPT !.fs = Put(@, nfo_path, File(nfo_content)),
                             !.ops = @ \cup {"write_nfo"}]
              ELSE w
    IN  [w1 EXCEPT !.cs = Put(@, data.MediaFileID,
                              [link_path |-> symlink_path,
                               nfo_path |-> nfo_path,
                               original_path |-> resolved_path,
                               resolved_filename_base |-> filename_base])]

CreateMediaFiles(w0, data, resolved_path, target_dir, filename_base) ==
    LET symlink_path == OutPath(target_dir, filename_base \o resolved_path.ext)
        nfo_path == OutPath(target_dir, filename_base \o NfoExt)
        w == [w0 EXCEPT !.dirs = @ \cup Parents(target_dir), !.ops = {}]
        linked == [w EXCEPT !.fs = Put(@, symlink_path, Link(resolved_path)),
                            !.ops = @ \cup {"symlink"}]
    IN  IF LinkPathOccupied(w.fs, symlink_path)
        THEN IF LinkPathIsLink(w.fs, symlink_path)
             THEN IF TargetDiffers(ReadLink(w.fs, symlink_path), resolved_path)
                  THEN LET removed == [w EXCEPT !.fs = Remove(@, symlink_path),
                                                !.ops = @ \cup {"remove"}]
                       IN  IF SymlinkSucceeds(removed.fs, symlink_path)
                           THEN WriteNfoAndState(
                                    [removed EXCEPT
                                        !.fs = Put(@, symlink_path, Link(resolved_path)),
                                        !.ops = @ \cup {"symlink"}],
                                    data, resolved_path, symlink_path, nfo_path,
                                    filename_base)
                           ELSE removed
                  ELSE WriteNfoAndState(w, data, resolved_path, symlink_path, nfo_path,
                                        filename_base)
             ELSE w
        ELSE IF SymlinkSucceeds(w.fs, symlink_path)
             THEN WriteNfoAndState(linked, data, resolved_path, symlink_path, nfo_path,
                                   filename_base)
             ELSE w

(***************************************************************************)
(* The season and episode numbers of _process_tv_show, lines 413-430.      *)
(***************************************************************************)
\* the digits of a number text, after its sign if it has one
Unsigned(s) == IF s # <<>> /\ Head(s) \in {"-", "+"} THEN Tail(s) ELSE s

\* int(text) accepts the text: decimal digits after an optional sign
IsNumber(s) == Unsigned(s) # <<>> /\ \A i \in 1..Len(Unsigned(s)) : Unsigned(s)[i] \in DigitSet

\* int(text or 0) raises ValueError
BadNumber(s) == s # <<>> /\ ~IsNumber(s)

\* int(text or 0)
HintValue(s) ==
    IF s = <<>> THEN 0
    ELSE IF Head(s) = "-" THEN 0 - DigitsToInt(Unsigned(s))
    ELSE DigitsToInt(Unsigned(s))

\* lines 419-430: the numbers of the file name, or S00E01
FromFileName(sxe_result) == IF sxe_result # NoMatch THEN sxe_result ELSE <<0, 1>>

\* the hints are taken as they are and the file name is never read
ChooseNumbersHintsOnly(sage_season_num, sage_episode_num, resolved_path) ==
    <<sage_season_num, sage_episode_num>>

\* lines 418-430: the hints win unless both are 0
ChooseNumbers(sage_season_num, sage_episode_num, resolved_path) ==
    IF sage_season_num = 0 /\ sage_episode_num = 0
    THEN FromFileName(ParseSxxEyy(FileName(resolved_path)))
    ELSE <<sage_season_num, sage_episode_num>>

SeasonEpisode(data, resolved_path) ==
    IF BadNumber(data.SeasonNumber) \/ BadNumber(data.EpisodeNumber)
    THEN ChooseNumbers(0, 0, resolved_path)
    ELSE ChooseNumbers(HintValue(data.SeasonNumber), HintValue(data.EpisodeNumber),
                       resolved_path)

(***************************************************************************)
(* The collision check of _process_tv_show (lines 456-477) and of          *)
(* _process_movie (lines 512-532).                                         *)
(***************************************************************************)
RECURSIVE CollisionDetected(_, _, _, _, _)
CollisionDetected(f, target_dir, filename_base, resolved_path, suffixes) ==
    IF suffixes = <<>> THEN FALSE
    ELSE LET existing_symlink_path == OutPath(target_dir, filename_base \o Head(suffixes))
         IN  IF /\ Exists(f, existing_symlink_path)
                /\ IsSymlink(f, existing_symlink_path)
                /\ GetComparablePath(ReadLink(f, existing_symlink_path))
                      # GetComparablePath(resolved_path)
             THEN TRUE
             ELSE CollisionDetected(f, target_dir, filename_base, resolved_path,
                                    Tail(suffixes))

\* step 2 of the resolution: the default base, suffixed after a collision
ResolveCollision(f, data, resolved_path, target_dir, default_filename_base) ==
    IF CollisionDetected(f, target_dir, default_filename_base, resolved_path,
                         collision_suffixes)
    THEN default_filename_base \o Dash \o data.MediaFileID
    ELSE default_filename_base

\* the final base: the recalled one, or else the outcome of the collision check
FinalBase(f, data, resolved_path, target_dir, default_filename_base) ==
    LET resolved_name == GetResolvedFilenameBase(data.MediaFileID)
    IN  IF resolved_name # <<>> THEN resolved_name
        ELSE ResolveCollision(f, data, resolved_path, target_dir, default_filename_base)

(***************************************************************************)
(* _process_tv_show and _process_movie. Target is the directory and the    *)
(* default base of a record, WriteArgs the directory and the final base    *)
(* that _create_media_files is called with.                                *)
(***************************************************************************)
\* lines 433-446: show_path, season_path and default_filename_base
TvPaths(cleaned_show_name, season_num, episode_num, episode_name_clean) ==
    [show |-> cleaned_show_name,
     show_path |-> tv_shows_root \o <<cleaned_show_name>>,
     dir |-> tv_shows_root \o <<cleaned_show_name>> \o <<SeasonWord \o Pad2(season_num)>>,
     base |-> cleaned_show_name \o Dash \o <<"S">> \o Pad2(season_num) \o <<"E">>
                \o Pad2(episode_num) \o Dash \o episode_name_clean]

TvNumbered(cleaned_show_name, se, episode_name_clean) ==
    TvPaths(cleaned_show_name, se[1], se[2], episode_name_clean)

TvTarget(data, resolved_path) ==
    TvNumbered(CleanDirectoryName(Strip(data.Title)),
               SeasonEpisode(data, resolved_path),
               CleanDirectoryName(IF data.EpisodeName # <<>> THEN Strip(data.EpisodeName)
                                  ELSE EpisodeWord))

\* lines 498-510: target_dir and default_filename_base of a movie
MoviePaths(cleaned_dir_name) ==
    [dir |-> IF flat_movie_structure THEN movies_root
             ELSE movies_root \o <<cleaned_dir_name>>,
     base |-> cleaned_dir_name]

MovieTarget(data) ==
    MoviePaths(CleanDirectoryName(
        IF data.Year # <<>> THEN Strip(data.Title) \o <<" ", "(">> \o data.Year \o <<")">>
        ELSE Strip(data.Title)))

DirAndBase(t) == [dir |-> t.dir, base |-> t.base]

Target(data, resolved_path) ==
    IF data.IsMovie THEN MovieTarget(data)
    ELSE DirAndBase(TvTarget(data, resolved_path))

WithFinalBase(f, data, resolved_path, t) ==
    [dir |-> t.dir, base |-> FinalBase(f, data, resolved_path, t.dir, t.base)]

WriteArgs(f, data, resolved_path) ==
    WithFinalBase(f, data, resolved_path, Target(data, resolved_path))

\* symlink_path and nfo_path of _create_media_files
SymlinkPath(args, resolved_path) == OutPath(args.dir, args.base \o resolved_path.ext)
NfoPath(args) == OutPath(args.dir, args.base \o NfoExt)

\* lines 437-440: the series sidecar, once per show and run
SeriesNfoOnce(w, data, t) ==
    IF t.show \notin w.shows
    THEN [CreateSeriesNfo(w, data, t.show_path) EXCEPT !.shows = @ \cup {t.show}]
    ELSE w

EnsureSeriesNfo(w, data, resolved_path) ==
    SeriesNfoOnce(w, data, TvTarget(data, resolved_path))

\* the call of _create_media_files, lines 480 and 535
WriteWith(w, data, resolved_path, args) ==
    CreateMediaFiles(w, data, resolved_path, args.dir, args.base)

\* the final base is resolved on the disk as it is at that point, then the write
ResolveAndWrite(w, data, resolved_path) ==
    WriteWith(w, data, resolved_path, WriteArgs(w.fs, data, resolved_path))

ProcessTvShow(w, data, resolved_path) ==
    IF data.Title = <<>> THEN w
    ELSE ResolveAndWrite(EnsureSeriesNfo(w, data, resolved_path), data, resolved_path)

ProcessMovie(w, data, resolved_path) ==
    IF data.Title = <<>> THEN w
    ELSE ResolveAndWrite(w, data, resolved_path)

\* the body of the for loop of run_generator for one record that has a source
ProcessRecord(w, data, resolved_path) ==
    IF data.IsMovie THEN ProcessMovie(w, data, resolved_path)
    ELSE ProcessTvShow(w, data, resolved_path)

(***************************************************************************)
(* _cleanup_stale_files                                                    *)
(***************************************************************************)
\* the test of line 562, not link_path.exists()
LinkPathMissing(f, link_path) == ~Exists(f, link_path)

\* the test of line 578, not target_path.exists()
TargetGoneAlways(target_path) == TRUE

TargetGone(target_path) == ~TargetExists(target_path)

\* one iteration of the loop of line 549
CleanupEntry(c, paths) ==
    LET link_path == paths.link_path
        nfo_path == paths.nfo_path
    IN  IF LinkPathMissing(c.fs, link_path) THEN c
        ELSE IF ~IsSymlink(c.fs, link_path) THEN c
        ELSE IF TargetGone(ReadLink(c.fs, link_path))
        THEN LET f1 == Remove(c.fs, link_path)
                 f2 == IF Exists(f1, nfo_path) THEN Remove(f1, nfo_path) ELSE f1
             IN  [fs |-> f2, stale_count |-> c.stale_count + 1]
        ELSE c

\* the identity keys of a snapshot, in the order of the loop
RECURSIVE KeySeq(_)
KeySeq(ks) ==
    IF ks = {} THEN <<>>
    ELSE LET k == CHOOSE x \in ks : TRUE IN <<k>> \o KeySeq(ks \ {k})

RECURSIVE CleanupLoop(_, _)
CleanupLoop(c, ks) ==
    IF ks = <<>> THEN c
    ELSE CleanupLoop(CleanupEntry(c, previous_state[Head(ks)]), Tail(ks))

CleanupStaleFiles(f) ==
    CleanupLoop([fs |-> f, stale_count |-> 0], KeySeq(DOMAIN previous_state))

(***************************************************************************)
(* The feed of the media server. The server reports each identity key at   *)
(* most once in a run; the content of a page is drawn when the for loop    *)
(* reaches it.                                                             *)
(***************************************************************************)
Zero == <<"0">>

MediaRecord(id, is_movie, path) ==
    [MediaFileID |-> id, IsMovie |-> is_movie, Title |-> ShowTitle, Year |-> <<>>,
     Description |-> PlotOf(id), EpisodeName |-> <<>>, EpisodeNumber |-> Zero,
     SeasonNumber |-> Zero, FilePath |-> path]

\* the paths the server may declare for an identity key
DeclaredPaths(id) ==
    IF id = Key7 THEN {Src(StemSE, Mpg), Src(StemSE, Wmv)}
    ELSE {Src(StemSE, Mkv), Src(StemA, Wmv)}

FeedRecords ==
    {r \in {MediaRecord(id, movies, p) : id \in Keys, p \in SourcePaths} :
        /\ r.FilePath \in DeclaredPaths(r.MediaFileID)
        /\ r.MediaFileID \notin seen}

(***************************************************************************)
(* A helper method called on its own: call is the method and its           *)
(* arguments, result the value returned.                                   *)
(***************************************************************************)
NoCall == [fn |-> "none", text |-> <<>>, season |-> <<>>, episode |-> <<>>]
NoResult == [done |-> FALSE, text |-> <<>>, numbers |-> <<>>]

\* the records fed to the run so far, whether the run has left the output
\* tree as it was, and the feed and the environment of the last run that
\* saved; on: the runs are observed
NoHistory == [on |-> FALSE, feed |-> {}, quiet |-> TRUE, last_feed |-> {}, last_env |-> 0]
Recording == [NoHistory EXCEPT !.on = TRUE]

\* the run is fed one more record
Fed(h, data) ==
    IF h.on THEN [h EXCEPT !.feed = @ \cup {<<data.MediaFileID, data.FilePath>>}] ELSE h

\* a step of the run has made f and d of the output tree
Observed(h, f, d) ==
    IF h.on THEN [h EXCEPT !.quiet = @ /\ f = fs /\ d = dirs] ELSE h

\* the process ends without saving
Forgotten(h) == IF h.on THEN [h EXCEPT !.feed = {}, !.quiet = TRUE] ELSE h

\* the process ends after the save
Remembered(h) ==
    IF h.on THEN [Recording EXCEPT !.last_feed = h.feed, !.last_env = env] ELSE h

\* no helper method is called on its own during a run
NoCallFrame == UNCHANGED <<call, result>>

\* the step neither touches the state file nor ends the process
NoExitFrame == UNCHANGED <<state_form, mkdirPerm, max_files_to_process, exit>>

(***************************************************************************)
(* The initial state: the media folder is full, nothing is generated yet   *)
(* and there is no state file.                                             *)
(***************************************************************************)
Init ==
    /\ srcFiles = SourcePaths
    /\ linkPerm \in BOOLEAN
    /\ movies \in BOOLEAN
    /\ fs = EmptyMap
    /\ dirs = {}
    /\ state_file = EmptyMap
    /\ previous_state = EmptyMap
    /\ current_state = EmptyMap
    /\ processed_tv_shows = {}
    /\ pc = "idle"
    /\ start = 0
    /\ total_generated = 0
    /\ page_len = 0
    /\ idx = 0
    /\ seen = {}
    /\ runs = 0
    /\ env = 0
    /\ state_form = "absent"
    /\ mkdirPerm = TRUE
    /\ max_files_to_process = MAX_FILES_TO_PROCESS
    /\ exit = "none"
    /\ hist = NoHistory
    /\ call = NoCall
    /\ result = NoResult

(***************************************************************************)
(* The environment, between two runs.                                      *)
(***************************************************************************)
EnvFrame ==
    UNCHANGED <<linkPerm, movies, dirs, state_file, previous_state, current_state,
                processed_tv_shows, pc, start, total_generated, page_len, idx,
                seen, runs, state_form, mkdirPerm, max_files_to_process, exit, hist, call, result>>

\* a media file is deleted, or moved away
DeleteSource ==
    /\ pc = "idle" /\ env < MaxEnv
    /\ \E p \in srcFiles : srcFiles' = srcFiles \ {p}
    /\ env' = env + 1
    /\ UNCHANGED fs
    /\ EnvFrame

\* a media file appears: recorded, transcoded or restored
AddSource ==
    /\ pc = "idle" /\ env < MaxEnv
    /\ \E p \in SourcePaths \ srcFiles : srcFiles' = srcFiles \cup {p}
    /\ env' = env + 1
    /\ UNCHANGED fs
    /\ EnvFrame

\* the user puts a file of their own where the tool had made a link
UserReplacesLink ==
    /\ pc = "idle" /\ env < MaxEnv
    /\ \E p \in DOMAIN fs :
          /\ fs[p].kind = "link"
          /\ fs' = Put(fs, p, File(UserContent))
    /\ env' = env + 1
    /\ UNCHANGED srcFiles
    /\ EnvFrame

(***************************************************************************)
(* One run: __init__, then run_generator.                                  *)
(***************************************************************************)
\* NFOGeneratorUtility.__init__
Construct ==
    /\ pc = "idle" /\ runs < MaxRuns
    /\ state_form # "unreadable" /\ mkdirPerm
    /\ previous_state' = LoadState
    /\ current_state' = EmptyMap
    /\ processed_tv_shows' = {}
    /\ dirs' = EnsureRootDirectories(dirs)
    /\ hist' = Observed(Forgotten(hist), fs, dirs')
    /\ pc' = "loaded"
    /\ UNCHANGED <<srcFiles, linkPerm, movies, fs, state_file, start, total_generated,
                   page_len, idx, seen, runs, env>>
    /\ NoExitFrame
    /\ NoCallFrame

\* run_generator, step 1: the sweep, and start = 0, total_generated = 0
Cleanup ==
    /\ pc = "loaded"
    /\ state_form # "list"
    /\ fs' = CleanupStaleFiles(fs).fs
    /\ hist' = Observed(hist, fs', dirs)
    /\ start' = 0
    /\ total_generated' = 0
    /\ pc' = "swept"
    /\ UNCHANGED <<srcFiles, linkPerm, movies, dirs, state_file, previous_state,
                   current_state, processed_tv_shows, page_len, idx, seen, runs, env>>
    /\ NoExitFrame
    /\ NoCallFrame

\* lines 620, 638 and 670: the configured limit, if any, is reached
LimitReached(n) == max_files_to_process > 0 /\ n >= max_files_to_process

FetchFrame ==
    UNCHANGED <<srcFiles, linkPerm, movies, fs, dirs, state_file, previous_state,
                current_state, processed_tv_shows, start, total_generated, seen,
                runs, env, state_form, mkdirPerm, max_files_to_process, exit, hist, call, result>>

\* the top of the while loop: the limit is reached (line 620), or the request
\* fails and _get_media_files_page returns None (line 626)
FetchFails ==
    /\ pc \in {"swept", "fetch"}
    /\ pc' = "save"
    /\ UNCHANGED <<page_len, idx>>
    /\ FetchFrame

\* the top of the while loop: the server answers with a page of n records
FetchPage ==
    /\ pc \in {"swept", "fetch"}
    /\ ~LimitReached(total_generated)
    /\ \E n \in 0..PAGE_SIZE :
          /\ n <= Cardinality(Keys \ seen)
          /\ page_len' = n
          /\ idx' = IF n = 0 THEN 0 ELSE 1
          /\ pc' = IF n = 0 THEN "save" ELSE "records"
    /\ FetchFrame

\* the sweep is run again after the records of a page
AfterPageSweep(n) == "loaded"

\* after the for loop: lines 669-677
AfterPage(n) ==
    IF LimitReached(n) THEN "save"
    ELSE IF page_len < PAGE_SIZE THEN "save"
    ELSE "fetch"

\* lines 652-667: a record without a source is skipped
ProcessResolved(w, data, resolved_path) ==
    IF data.FilePath = NoPath \/ resolved_path = NoPath THEN w
    ELSE ProcessRecord(w, data, resolved_path)

\* what one iteration of the for loop of line 635 makes of the record data
Processed(w, data) == ProcessResolved(w, data, ResolveActualFilePath(data.FilePath))

\* the record counts in total_generated
Generated(data) ==
    data.FilePath # NoPath /\ ResolveActualFilePath(data.FilePath) # NoPath

\* one iteration of the for loop of line 635, and the end of the loop after the last
\* the loop goes on with the world w and n records generated; last: the
\* for loop ends here
Continue(w, n, last) ==
    /\ fs' = w.fs
    /\ dirs' = w.dirs
    /\ current_state' = w.cs
    /\ processed_tv_shows' = w.shows
    /\ total_generated' = n
    /\ idx' = IF last THEN 0 ELSE idx + 1
    /\ pc' = IF last THEN AfterPage(n) ELSE "records"
    /\ start' = IF last /\ AfterPage(n) = "fetch" THEN start + PAGE_SIZE ELSE start

ProcessNext ==
    /\ pc = "records"
    /\ \E data \in FeedRecords :
          /\ IF LimitReached(total_generated)
             THEN Continue(World, total_generated, TRUE) /\ UNCHANGED <<hist, seen>>
             ELSE /\ Continue(Processed(World, data),
                              IF Generated(data) THEN total_generated + 1
                              ELSE total_generated,
                              idx = page_len)
                  /\ hist' = Observed(Fed(hist, data), fs', dirs')
                  /\ seen' = seen \cup {data.MediaFileID}
    /\ UNCHANGED <<srcFiles, linkPerm, movies, state_file, previous_state, page_len,
                   runs, env>>
    /\ NoExitFrame
    /\ NoCallFrame

\* the process ends: its variables are gone
ProcessEnds ==
    /\ pc' = "idle"
    /\ runs' = runs + 1
    /\ seen' = {}
    /\ page_len' = 0
    /\ idx' = 0
    /\ start' = 0
    /\ total_generated' = 0
    /\ previous_state' = EmptyMap
    /\ current_state' = EmptyMap
    /\ processed_tv_shows' = {}

\* run_generator, step 3: _save_state; the process then ends
Save ==
    /\ pc = "save"
    /\ hist' = Remembered(hist)
    /\ state_file' = SaveState(current_state)
    /\ state_form' = "mapping"
    /\ exit' = "saved"
    /\ ProcessEnds
    /\ UNCHANGED <<srcFiles, linkPerm, movies, fs, dirs, env, mkdirPerm, max_files_to_process>>
    /\ NoCallFrame

Next ==
    \/ DeleteSource
    \/ AddSource
    \/ UserReplacesLink
    \/ Construct
    \/ Cleanup
    \/ FetchFails
    \/ FetchPage
    \/ ProcessNext
    \/ Save

Spec == Init /\ [][Next]_vars

(***************************************************************************)
(* The generator with its runs observed: what each run is fed and whether  *)
(* it changes the output tree.                                             *)
(***************************************************************************)
InitRepeat ==
    /\ srcFiles = SourcePaths
    /\ linkPerm \in BOOLEAN
    /\ movies \in BOOLEAN
    /\ fs = EmptyMap
    /\ dirs = {}
    /\ state_file = EmptyMap
    /\ previous_state = EmptyMap
    /\ current_state = EmptyMap
    /\ processed_tv_shows = {}
    /\ pc = "idle"
    /\ start = 0
    /\ total_generated = 0
    /\ page_len = 0
    /\ idx = 0
    /\ seen = {}
    /\ runs = 0
    /\ env = 0
    /\ state_form = "absent"
    /\ mkdirPerm = TRUE
    /\ max_files_to_process = MAX_FILES_TO_PROCESS
    /\ exit = "none"
    /\ hist = Recording
    /\ call = NoCall
    /\ result = NoResult

SpecRepeat == InitRepeat /\ [][Next]_vars

(***************************************************************************)
(* The generator under a configuration that may set MAX_FILES_TO_PROCESS   *)
(* (line 89): no limit, the default, or a limit of up to MaxLimit records. *)
(***************************************************************************)
InitLimit ==
    /\ srcFiles = SourcePaths
    /\ linkPerm = TRUE
    /\ movies \in BOOLEAN
    /\ fs = EmptyMap
    /\ dirs = {}
    /\ state_file = EmptyMap
    /\ previous_state = EmptyMap
    /\ current_state = EmptyMap
    /\ processed_tv_shows = {}
    /\ pc = "idle"
    /\ start = 0
    /\ total_generated = 0
    /\ page_len = 0
    /\ idx = 0
    /\ seen = {}
    /\ runs = 0
    /\ env = 0
    /\ state_form = "absent"
    /\ mkdirPerm = TRUE
    /\ max_files_to_process \in 0..MaxLimit
    /\ exit = "none"
    /\ hist = NoHistory
    /\ call = NoCall
    /\ result = NoResult

SpecLimit == InitLimit /\ [][Next]_vars

(***************************************************************************)
(* The generator with the failures around it: the state file damaged or    *)
(* unreadable, the root directories not creatable, and the process killed  *)
(* during a run or during the write of the state file.                     *)
(***************************************************************************)
InitFaults ==
    /\ srcFiles = SourcePaths
    /\ linkPerm = TRUE
    /\ movies \in BOOLEAN
    /\ fs = EmptyMap
    /\ dirs = {}
    /\ state_file = EmptyMap
    /\ previous_state = EmptyMap
    /\ current_state = EmptyMap
    /\ processed_tv_shows = {}
    /\ pc = "idle"
    /\ start = 0
    /\ total_generated = 0
    /\ page_len = 0
    /\ idx = 0
    /\ seen = {}
    /\ runs = 0
    /\ env = 0
    /\ state_form = "absent"
    /\ mkdirPerm \in BOOLEAN
    /\ max_files_to_process = MAX_FILES_TO_PROCESS
    /\ exit = "none"
    /\ hist = NoHistory
    /\ call = NoCall
    /\ result = NoResult

\* between two runs the state file is replaced by a JSON list, or made
\* unreadable to the process
DamageState ==
    /\ pc = "idle" /\ env < MaxEnv
    /\ state_form = "mapping"
    /\ state_form' \in {"list", "unreadable"}
    /\ state_file' = EmptyMap
    /\ env' = env + 1
    /\ UNCHANGED <<srcFiles, linkPerm, movies, fs, dirs, previous_state, current_state,
                   processed_tv_shows, pc, start, total_generated, page_len, idx, seen,
                   runs, mkdirPerm, max_files_to_process, exit, hist>>
    /\ NoCallFrame

\* __init__ raises: open() in _load_state (line 111) fails on an unreadable
\* file, or _ensure_root_directories re-raises the OSError of mkdir (line 134);
\* the main block logs the error and the process ends (lines 698-700)
ConstructFails ==
    /\ pc = "idle" /\ runs < MaxRuns
    /\ state_form = "unreadable" \/ ~mkdirPerm
    /\ exit' = "fatal"
    /\ hist' = Forgotten(hist)
    /\ ProcessEnds
    /\ UNCHANGED <<srcFiles, linkPerm, movies, fs, dirs, state_file, env, state_form,
                   mkdirPerm, max_files_to_process>>
    /\ NoCallFrame

\* _cleanup_stale_files raises: previous_state is a list and has no items()
\* (line 549, outside the try); run_generator ends there and the main block
\* logs the error
CleanupFails ==
    /\ pc = "loaded"
    /\ state_form = "list"
    /\ exit' = "fatal"
    /\ hist' = Forgotten(hist)
    /\ ProcessEnds
    /\ UNCHANGED <<srcFiles, linkPerm, movies, fs, dirs, state_file, env, state_form,
                   mkdirPerm, max_files_to_process>>
    /\ NoCallFrame

\* the process is killed during a run, before _save_state
Interrupt ==
    /\ pc \in {"loaded", "swept", "fetch", "records", "save"}
    /\ exit' = "killed"
    /\ hist' = Forgotten(hist)
    /\ ProcessEnds
    /\ UNCHANGED <<srcFiles, linkPerm, movies, fs, dirs, state_file, env, state_form,
                   mkdirPerm, max_files_to_process>>
    /\ NoCallFrame

\* the process is killed in _save_state: open(..., 'w') has emptied the file
\* (line 121) and json.dump has written none or a part of the document
SaveInterrupted ==
    /\ pc = "save"
    /\ state_file' = EmptyMap
    /\ state_form' = "truncated"
    /\ exit' = "killed"
    /\ hist' = Forgotten(hist)
    /\ ProcessEnds
    /\ UNCHANGED <<srcFiles, linkPerm, movies, fs, dirs, env, mkdirPerm, max_files_to_process>>
    /\ NoCallFrame

\* the world when target_dir.mkdir of _create_media_files raises (line 283):
\* for an episode the series sidecar has been seen to before (lines 437-440)
RaisedInWriter(w, data, resolved_path) ==
    IF data.IsMovie \/ data.Title = <<>> THEN w
    ELSE EnsureSeriesNfo(w, data, resolved_path)

\* one iteration of the for loop in which _process_movie or _process_tv_show
\* raises: the except of lines 666-667 logs the error, the record is not
\* counted and the loop goes on
ProcessRaises ==
    /\ pc = "records"
    /\ ~LimitReached(total_generated)
    /\ \E data \in FeedRecords :
          /\ Generated(data)
          /\ Continue(RaisedInWriter(World, data, ResolveActualFilePath(data.FilePath)),
                      total_generated, idx = page_len)
          /\ hist' = Observed(Fed(hist, data), fs', dirs')
          /\ seen' = seen \cup {data.MediaFileID}
    /\ UNCHANGED <<srcFiles, linkPerm, movies, state_file, previous_state, page_len,
                   runs, env>>
    /\ NoExitFrame
    /\ NoCallFrame

\* one iteration of the for loop in which _resolve_actual_file_path raises
\* (line 649): is_file() passes on every OSError but "not found", such as a
\* name too long or a directory that may not be searched; the call is not
\* inside the try of line 659, so run_generator ends there and the main block
\* logs the error
ResolveRaises ==
    /\ pc = "records"
    /\ ~LimitReached(total_generated)
    /\ FeedRecords # {}
    /\ exit' = "fatal"
    /\ hist' = Forgotten(hist)
    /\ ProcessEnds
    /\ UNCHANGED <<srcFiles, linkPerm, movies, fs, dirs, state_file, env, state_form,
                   mkdirPerm, max_files_to_process>>
    /\ NoCallFrame

NextFaults ==
    \/ Next
    \/ ProcessRaises
    \/ ResolveRaises
    \/ DamageState
    \/ ConstructFails
    \/ CleanupFails
    \/ Interrupt
    \/ SaveInterrupted

SpecFaults == InitFaults /\ [][NextFaults]_vars

(***************************************************************************)
(* The helper methods on their own: the season and episode numbers of      *)
(* _process_tv_show (lines 413-430, with _parse_sxxeyy) and                *)
(* _clean_directory_name, each applied once to arguments drawn from        *)
(* bounded sets.                                                           *)
(***************************************************************************)
\* the longest name that _clean_directory_name is applied to
MaxLen == 4

\* the characters of those names: a letter, the blank, the tab, the dot and
\* an illegal character
NameChars == {"a", " ", "\t", ".", ":"}

Names == UNION {[1..n -> NameChars] : n \in 0..MaxLen}

\* SeasonNumber and EpisodeNumber as the feed may give them
SeasonHints == {<<>>, <<"0">>, <<"3">>, <<"1", "2">>, <<"x">>, <<"-", "1">>}
EpisodeHints == {<<>>, <<"0">>, <<"7">>, <<"x">>}

\* what may stand between a letter and its digits, or between the two halves
Separators == {<<>>, <<".">>, <<"-">>, <<" ">>}

\* S01E02 and s01e02 with a separator or none at each of the three places
SeparatedNames ==
    {<<l[1]>> \o s1 \o <<"0", "1">> \o s2 \o <<l[2]>> \o s3 \o <<"0", "2">> :
        l \in {<<"S", "E">>, <<"s", "e">>}, s1 \in Separators, s2 \in Separators,
        s3 \in Separators}

\* file names: stem and extension
FileNames ==
    SeparatedNames \cup
    {<<"S", "h", "o", "w", ".", "S", "0", "2", "E", "0", "5", ".", "m", "k", "v">>,
     <<"s", "h", "o", "w", " ", "s", "0", "2", "e", "0", "5", ".", "a", "v", "i">>,
     <<"S", "0", "2", "E", "0", "5">>,
     <<"a", ".", "m", "k", "v">>,
     <<"S", "h", "o", "w", ".", "m", "k", "v">>,
     <<"S", "1", ".", "E", "2", ".", "t", "s">>,
     <<"s", "-", "3", " ", " ", "e", ".", "4">>,
     <<"S", "h", "o", "w", ".", "S", "0", "1">>,
     <<"x", " ", "S", "0", "2", "E", "0", "5", " ", "S", "0", "1", "E", "0", "1", ".", "m", "k", "v">>,
     <<"S", "e", "r", "i", "e", "s", " ", "E", "0", "5">>}

\* the file name as a path: Path.name gives it back
AsPath(name) == Src(name, <<>>)

EpisodeCalls ==
    {[fn |-> "episode", text |-> f, season |-> s, episode |-> e] :
        f \in FileNames, s \in SeasonHints, e \in EpisodeHints}

CleanCalls == {[fn |-> "clean", text |-> n, season |-> <<>>, episode |-> <<>>] : n \in Names}

\* the generator is not running: the state of Init with the helper call chosen
InitHelpers ==
    /\ srcFiles = SourcePaths
    /\ linkPerm = TRUE
    /\ movies = FALSE
    /\ fs = EmptyMap
    /\ dirs = {}
    /\ state_file = EmptyMap
    /\ previous_state = EmptyMap
    /\ current_state = EmptyMap
    /\ processed_tv_shows = {}
    /\ pc = "idle"
    /\ start = 0
    /\ total_generated = 0
    /\ page_len = 0
    /\ idx = 0
    /\ seen = {}
    /\ runs = 0
    /\ env = 0
    /\ state_form = "absent"
    /\ mkdirPerm = TRUE
    /\ max_files_to_process = MAX_FILES_TO_PROCESS
    /\ exit = "none"
    /\ hist = NoHistory
    /\ call \in EpisodeCalls \cup CleanCalls
    /\ result = NoResult

HelperFrame ==
    UNCHANGED <<srcFiles, linkPerm, fs, dirs, state_file, previous_state, current_state,
                processed_tv_shows, pc, start, total_generated, page_len, idx, seen,
                movies, runs, env, state_form, mkdirPerm, max_files_to_process, exit, hist, call>>

\* lines 413-430 of _process_tv_show on the hints and the file name of the call
IdentifyEpisode ==
    /\ call.fn = "episode" /\ ~result.done
    /\ result' = [done |-> TRUE, text |-> <<>>,
                  numbers |-> SeasonEpisode([SeasonNumber |-> call.season,
                                             EpisodeNumber |-> call.episode],
                                            AsPath(call.text))]
    /\ HelperFrame

\* _clean_directory_name on the name of the call
Sanitize ==
    /\ call.fn = "clean" /\ ~result.done
    /\ result' = [done |-> TRUE, text |-> CleanDirectoryName(call.text), numbers |-> <<>>]
    /\ HelperFrame

NextHelpers ==
    \/ IdentifyEpisode
    \/ Sanitize

SpecHelpers == InitHelpers /\ [][NextHelpers]_vars

(***************************************************************************)
(* The first record of a run whatever the media folder holds and whatever  *)
(* path the server declares: call is the declared path, result the path    *)
(* resolved and what the iteration of the for loop has made.               *)
(***************************************************************************)
\* the files that may exist, and the paths the server may declare
ResolvePaths ==
    {Src(StemSE, Mpg), Src(StemSE, Mkv), Src(StemSE, Avi), Src(StemSE, Wmv),
     Relative(StemSE, Mpg), Relative(StemSE, Mkv)}

InitResolve ==
    /\ srcFiles \in SUBSET ResolvePaths
    /\ linkPerm = TRUE
    /\ movies \in BOOLEAN
    /\ fs = EmptyMap
    /\ dirs = EnsureRootDirectories({})
    /\ state_file = EmptyMap
    /\ previous_state = EmptyMap
    /\ current_state = EmptyMap
    /\ processed_tv_shows = {}
    /\ pc = "records"
    /\ start = 0
    /\ total_generated = 0
    /\ page_len = 1
    /\ idx = 1
    /\ seen = {}
    /\ runs = 0
    /\ env = 0
    /\ state_form = "absent"
    /\ mkdirPerm = TRUE
    /\ max_files_to_process = MAX_FILES_TO_PROCESS
    /\ exit = "none"
    /\ hist = NoHistory
    /\ call \in {[fn |-> "resolve", path |-> p] : p \in ResolvePaths}
    /\ result = NoResult

\* lines 641-667: one iteration of the for loop on a record of the path
\* of the call
ResolveAndProcess ==
    /\ call.fn = "resolve" /\ ~result.done
    /\ result' = [done |-> TRUE,
                  path |-> ResolveActualFilePath(call.path),
                  world |-> Processed(World, MediaRecord(Key7, movies, call.path))]
    /\ HelperFrame

NextResolve == ResolveAndProcess

SpecResolve == InitResolve /\ [][NextResolve]_vars

(***************************************************************************)
(* Properties.                                                             *)
(***************************************************************************)
\* the records of the snapshot that the sweep of this run goes through
Tracked == DOMAIN previous_state

\* a symbolic link is at p and its target is gone
Dangling(f, p) == IsSymlink(f, p) /\ ~TargetExists(f[p].target)

\* a symbolic link is at p and its target exists
LiveLink(f, p) == IsSymlink(f, p) /\ TargetExists(f[p].target)

\* the step is the sweep of a run
SweepStep == pc = "loaded" /\ pc' = "swept"

\* C1: the sweep deletes every link of the previous snapshot whose target is
\* gone, deletes its sidecar, and counts it.
C1_SweepRemovesDanglingLinks ==
    [][SweepStep =>
         \A k \in Tracked :
            Dangling(fs, previous_state[k].link_path) =>
               /\ previous_state[k].link_path \notin DOMAIN fs'
               /\ previous_state[k].nfo_path \notin DOMAIN fs'
               /\ CleanupStaleFiles(fs).stale_count >= 1]_vars

\* C2: the sweep leaves in place every link of the previous snapshot whose
\* target exists and every entry at a recorded link path that is no link, and
\* the sidecars recorded with them.
Kept(p) == p \in DOMAIN fs => p \in DOMAIN fs' /\ fs'[p] = fs[p]

C2_SweepNonDestructive ==
    [][SweepStep =>
         \A k \in Tracked :
            LET link_path == previous_state[k].link_path
            IN  (LiveLink(fs, link_path)
                   \/ (link_path \in DOMAIN fs /\ ~IsSymlink(fs, link_path)))
                => Kept(link_path) /\ Kept(previous_state[k].nfo_path)]_vars

\* the sweep has gone through a snapshot with a live link and with a recorded
\* link path that holds a regular file, both with their sidecars on disk
C2_Witness ==
    /\ pc = "swept"
    /\ \E k1, k2 \in Tracked :
          /\ LiveLink(fs, previous_state[k1].link_path)
          /\ previous_state[k2].link_path \in DOMAIN fs
          /\ fs[previous_state[k2].link_path].kind = "file"
          /\ previous_state[k1].nfo_path \in DOMAIN fs
          /\ previous_state[k2].nfo_path \in DOMAIN fs

\* the run has processed its last record and is about to save current_state
RunEnd == pc = "save"

\* the directory of a recorded artifact
DirOf(rec) == rec.link_path.dir

\* C3: at the end of a run no two identity keys of the current snapshot with
\* different sources share a target directory and a base filename.
C3_BasesUniqueInDirectory ==
    RunEnd =>
       \A k1, k2 \in DOMAIN current_state :
          (/\ k1 # k2
           /\ current_state[k1].original_path # current_state[k2].original_path
           /\ DirOf(current_state[k1]) = DirOf(current_state[k2]))
          => current_state[k1].resolved_filename_base
                # current_state[k2].resolved_filename_base

\* C4: a record whose identity key has a base in the previous snapshot is
\* written under that base, whatever the disk holds and wherever the feed
\* lists it; a key of both snapshots has the same base in both.
Recalled(data) ==
    /\ data.MediaFileID \in DOMAIN previous_state
    /\ ResolveActualFilePath(data.FilePath) # NoPath

C4_CollisionRecall ==
    /\ pc = "records" =>
          \A data \in FeedRecords :
             Recalled(data) =>
                WriteArgs(fs, data, ResolveActualFilePath(data.FilePath)).base
                   = previous_state[data.MediaFileID].resolved_filename_base
    /\ \A k \in DOMAIN current_state \cap DOMAIN previous_state :
          current_state[k].resolved_filename_base
             = previous_state[k].resolved_filename_base

\* a record is about to be written under its recalled base although the
\* collision check on the disk of this run gives another base
C4_Witness ==
    /\ pc = "records"
    /\ \E data \in FeedRecords :
          LET resolved_path == ResolveActualFilePath(data.FilePath)
              t == Target(data, resolved_path)
          IN  /\ Recalled(data)
              /\ previous_state[data.MediaFileID].resolved_filename_base
                    # ResolveCollision(fs, data, resolved_path, t.dir, t.base)
              /\ DOMAIN current_state # {}

\* C5: a record of the previous snapshot is missing from the snapshot that the
\* run saves only if its link is gone or has lost its target.
C5_RecordKeptUntilCollected ==
    RunEnd =>
       \A k \in DOMAIN previous_state :
          k \notin DOMAIN current_state
             => ~LiveLink(fs, previous_state[k].link_path)

\* C6: when the source of an identity key has moved from the .mpg to the .mkv
\* of the same stem and the old file is gone, the run ends with the link of the
\* record pointing at the new source under a name with the new extension, with
\* the new source in the snapshot, and with no link left under the old name.
C6_SourceMovedNoDuplicate ==
    RunEnd =>
       \A k \in DOMAIN previous_state \cap DOMAIN current_state :
          LET old == previous_state[k]
              new == current_state[k]
          IN  (/\ old.original_path.stem = new.original_path.stem
               /\ old.original_path.ext = Mpg
               /\ new.original_path.ext = Mkv
               /\ old.original_path \notin srcFiles
               /\ new.original_path \in srcFiles)
              => /\ new.link_path \in DOMAIN fs
                 /\ fs[new.link_path] = Link(new.original_path)
                 /\ new.link_path.name
                       = new.resolved_filename_base \o new.original_path.ext
                 /\ old.link_path # new.link_path
                 /\ ~IsSymlink(fs, old.link_path)

\* what the for loop is about to do with the record data: the world before
\* the call of _create_media_files, its arguments, and the world after it
Call(data) ==
    LET resolved_path == ResolveActualFilePath(data.FilePath)
        before == IF data.IsMovie THEN World
                  ELSE EnsureSeriesNfo(World, data, resolved_path)
        args == WriteArgs(before.fs, data, resolved_path)
    IN  [resolved_path |-> resolved_path,
         before |-> before,
         args |-> args,
         symlink_path |-> SymlinkPath(args, resolved_path),
         nfo_path |-> NfoPath(args),
         after |-> CreateMediaFiles(before, data, resolved_path, args.dir, args.base)]

\* the records that the for loop may be about to write
Writable == {data \in FeedRecords : ResolveActualFilePath(data.FilePath) # NoPath}

\* C7: when a symbolic link is at the computed link path, the write replaces
\* it by a link to the resolved source if its target differs, whether that
\* target exists or not, and leaves it alone if the target is the same.
C7_LinkReplacedWhenTargetDiffers ==
    pc = "records" =>
       \A data \in Writable :
          LET c == Call(data)
          IN  IsSymlink(c.before.fs, c.symlink_path) =>
                 IF TargetDiffers(ReadLink(c.before.fs, c.symlink_path), c.resolved_path)
                 THEN /\ c.symlink_path \in DOMAIN c.after.fs
                      /\ c.after.fs[c.symlink_path] = Link(c.resolved_path)
                      /\ {"remove", "symlink"} \subseteq c.after.ops
                 ELSE /\ c.after.fs[c.symlink_path] = c.before.fs[c.symlink_path]
                      /\ c.after.ops \cap {"remove", "symlink"} = {}

\* C8: after the sweep no season, show or movie folder is empty, and no show
\* folder holds tvshow.nfo alone.
SubDirs(d) == {e \in dirs : Len(e) = Len(d) + 1 /\ SubSeq(e, 1, Len(d)) = d}
Entries(d) == {p \in DOMAIN fs : p.dir = d}
Prunable(d) ==
    /\ Len(d) >= 2
    /\ SubDirs(d) = {}
    /\ \/ Entries(d) = {}
       \/ /\ SubSeq(d, 1, 1) = tv_shows_root
          /\ Len(d) = 2
          /\ Entries(d) = {OutPath(d, TvShowNfo)}

C8_EmptyDirectoriesPruned ==
    pc = "swept" => \A d \in dirs : ~Prunable(d)

\* C9: a second call of _create_media_files with the arguments of the first
\* changes neither the disk nor the current snapshot, and neither removes or
\* creates a link nor writes a sidecar.
Again(data) ==
    LET c == Call(data)
    IN  CreateMediaFiles(c.after, data, c.resolved_path, c.args.dir, c.args.base)

C9_WriteIdempotent ==
    pc = "records" =>
       \A data \in Writable :
          /\ Again(data).fs = Call(data).after.fs
          /\ Again(data).dirs = Call(data).after.dirs
          /\ Again(data).cs = Call(data).after.cs
          /\ Again(data).ops = {}

\* a first call that replaces a link is about to happen
C9_Witness ==
    /\ pc = "records"
    /\ \E data \in Writable : {"remove", "symlink"} \subseteq Call(data).after.ops

\* C10: processing a record never changes or removes a regular file that is
\* already in the output tree, sidecar or tvshow.nfo.
C10_SidecarsNeverOverwritten ==
    [][pc = "records" =>
         \A p \in DOMAIN fs :
            fs[p].kind = "file" => p \in DOMAIN fs' /\ fs'[p] = fs[p]]_vars

\* the run has written the record of a key whose sidecar path holds a sidecar
\* made from another record's metadata, and that sidecar is still there
C10_Witness ==
    /\ RunEnd
    /\ \E k \in DOMAIN current_state :
          /\ current_state[k].nfo_path \in DOMAIN fs
          /\ fs[current_state[k].nfo_path].content.plot # PlotOf(k)
          /\ fs[current_state[k].nfo_path].content.tag \in {"movie", "episodedetails"}

\* the link path computed for the record holds an entry that is no symbolic link
NonLinkAt(c) ==
    /\ c.symlink_path \in DOMAIN c.before.fs
    /\ c.before.fs[c.symlink_path].kind = "file"

\* C11: when the computed link path holds an entry that is not a symbolic
\* link, the write leaves the whole output tree as it is: the entry is neither
\* removed nor overwritten, no link is made and no sidecar is written.
C11_NonLinkConflictSkipped ==
    pc = "records" =>
       \A data \in Writable :
          LET c == Call(data)
          IN  NonLinkAt(c) =>
                 /\ c.after.fs = c.before.fs
                 /\ c.after.ops = {}

\* a record is about to be written whose link path holds a regular file
C11_Witness ==
    /\ pc = "records"
    /\ \E data \in Writable : NonLinkAt(Call(data))

\* C12: whichever branch the write takes, on return current_state holds the
\* record of the identity key with the link path, the sidecar path, the source
\* and the base of this call.
C12_WriterAlwaysRecordsState ==
    pc = "records" =>
       \A data \in Writable :
          LET c == Call(data)
          IN  /\ data.MediaFileID \in DOMAIN c.after.cs
              /\ c.after.cs[data.MediaFileID]
                    = [link_path |-> c.symlink_path,
                       nfo_path |-> c.nfo_path,
                       original_path |-> c.resolved_path,
                       resolved_filename_base |-> c.args.base]

\* after the write the link path holds a link to the resolved source
LinkInPlace(c) ==
    /\ c.symlink_path \in DOMAIN c.after.fs
    /\ c.after.fs[c.symlink_path] = Link(c.resolved_path)

\* C12 amended: on return current_state holds the record of this call exactly
\* when the link path then holds a link to the resolved source (created,
\* replaced or found correct); after a non-link conflict or a failed link
\* creation the write returns with current_state as it was.
C12_WriterRecordsStateWhenLinked ==
    pc = "records" =>
       \A data \in Writable :
          LET c == Call(data)
          IN  IF LinkInPlace(c)
              THEN /\ data.MediaFileID \in DOMAIN c.after.cs
                   /\ c.after.cs[data.MediaFileID]
                         = [link_path |-> c.symlink_path,
                            nfo_path |-> c.nfo_path,
                            original_path |-> c.resolved_path,
                            resolved_filename_base |-> c.args.base]
              ELSE c.after.cs = c.before.cs

\* one record is about to be linked and recorded, another one to be skipped
\* for a non-link conflict
C12_Witness ==
    /\ pc = "records"
    /\ \E data \in Writable :
          LinkInPlace(Call(data)) /\ "symlink" \in Call(data).after.ops
    /\ \E data \in Writable : NonLinkAt(Call(data))

\* the root folder of the episodes as the specification names it
TvFolderOfSpec == <<"T", "V">>
\* the root folder of the episodes as __init__ names it (line 94)
TvFolderOfCode == <<"T", "V", " ", "S", "h", "o", "w", "s">>

\* <root>/<folder>/<title>/Season NN/<title> - SNNENN - <episode title or Episode><ext>
EpisodeLinkPath(folder, data, resolved_path) ==
    LET title == CleanDirectoryName(Strip(data.Title))
        se == SeasonEpisode(data, resolved_path)
        episode_title == IF data.EpisodeName # <<>>
                         THEN CleanDirectoryName(Strip(data.EpisodeName))
                         ELSE EpisodeWord
    IN  OutPath(<<folder, title, SeasonWord \o Pad2(se[1])>>,
                title \o Dash \o <<"S">> \o Pad2(se[1]) \o <<"E">> \o Pad2(se[2])
                   \o Dash \o episode_title \o resolved_path.ext)

\* <root>/<folder>/Show/Season 01/Show - S01E02 - Episode.mkv
ExampleLinkPath(folder) ==
    OutPath(<<folder, <<"S", "h", "o", "w">>,
              <<"S", "e", "a", "s", "o", "n", " ", "0", "1">> >>,
            <<"S", "h", "o", "w", " ", "-", " ", "S", "0", "1", "E", "0", "2", " ",
              "-", " ", "E", "p", "i", "s", "o", "d", "e", ".", "m", "k", "v">>)

\* the record of the example: title Show, hints 0/0, no episode title, and the
\* source Show.S01E02.mkv
IsExample(data, resolved_path) ==
    /\ ~data.IsMovie
    /\ data.Title = <<"S", "h", "o", "w">>
    /\ data.SeasonNumber = <<"0">> /\ data.EpisodeNumber = <<"0">>
    /\ data.EpisodeName = <<>>
    /\ resolved_path = Src(<<"S", "h", "o", "w", ".", "S", "0", "1", "E", "0", "2">>,
                           <<".", "m", "k", "v">>)

\* the write of the episode record data makes or finds its link
EpisodeLinked(data) ==
    /\ ~data.IsMovie
    /\ data.MediaFileID \in DOMAIN Call(data).after.cs

\* C13 as stated: every episode that is linked is linked under <root>/TV at the
\* path made of its title, its season and episode numbers and its episode
\* title, and the example record at TV/Show/Season 01/Show - S01E02 - Episode.mkv.
C13_EpisodePathUnderTV ==
    pc = "records" =>
       \A data \in Writable :
          LET c == Call(data)
          IN  EpisodeLinked(data) =>
                 /\ c.symlink_path = EpisodeLinkPath(TvFolderOfSpec, data, c.resolved_path)
                 /\ IsExample(data, c.resolved_path)
                       => c.symlink_path = ExampleLinkPath(TvFolderOfSpec)

\* the key has no base in the previous snapshot and the default name meets no
\* link of another source
DefaultNameFree(data) ==
    LET c == Call(data)
        t == Target(data, c.resolved_path)
    IN  /\ data.MediaFileID \notin DOMAIN previous_state
        /\ ~CollisionDetected(c.before.fs, t.dir, t.base, c.resolved_path,
                              collision_suffixes)

\* C13 amended: the folder is "TV Shows", and the path is the default one for
\* an episode whose key has no recalled base and whose default name collides
\* with no existing link.
C13_EpisodePathUnderTVShows ==
    pc = "records" =>
       \A data \in Writable :
          LET c == Call(data)
          IN  (EpisodeLinked(data) /\ DefaultNameFree(data)) =>
                 /\ c.symlink_path = EpisodeLinkPath(TvFolderOfCode, data, c.resolved_path)
                 /\ c.after.fs[c.symlink_path].kind = "link"
                 /\ IsExample(data, c.resolved_path)
                       => c.symlink_path = ExampleLinkPath(TvFolderOfCode)

\* the example record is about to be linked under its default name
C13_Witness ==
    /\ pc = "records"
    /\ \E data \in Writable :
          /\ EpisodeLinked(data)
          /\ DefaultNameFree(data)
          /\ IsExample(data, Call(data).resolved_path)
          /\ "symlink" \in Call(data).after.ops

\* C14: the season and the episode written into an episode's sidecar are the
\* numbers of the Season folder and of the SxxEyy part of the link name.
C14_SidecarNumbersAgree ==
    pc = "records" =>
       \A data \in Writable :
          LET c == Call(data)
              se == SeasonEpisode(data, c.resolved_path)
          IN  (~data.IsMovie /\ "write_nfo" \in c.after.ops) =>
                 /\ c.after.fs[c.nfo_path].content.season = IntToText(se[1])
                 /\ c.after.fs[c.nfo_path].content.episode = IntToText(se[2])

\* the text s holds the text sub from position i on
HoldsAt(s, sub, i) ==
    /\ i + Len(sub) - 1 <= Len(s)
    /\ SubSeq(s, i, i + Len(sub) - 1) = sub

\* a season and episode pattern starts at position i of the text s: s or S, an
\* optional dot or dash, digits, blanks, e or E, an optional dot or dash, a digit
PatternAt(s, i) ==
    /\ i <= Len(s) /\ s[i] \in {"s", "S"}
    /\ \E a \in {i + 1, i + 2} :
          /\ a = i + 2 => (i + 1 <= Len(s) /\ s[i + 1] \in {".", "-"})
          /\ \E b \in (a + 1)..Len(s) :
                /\ s[b] \in {"e", "E"}
                /\ \E d \in a..(b - 1) :
                      /\ \A j \in a..d : s[j] \in DigitSet
                      /\ \A j \in (d + 1)..(b - 1) : s[j] = " "
                /\ \E c \in {b + 1, b + 2} :
                      /\ c = b + 2 => (b + 1 <= Len(s) /\ s[b + 1] \in {".", "-"})
                      /\ c <= Len(s) /\ s[c] \in DigitSet

\* the first season and episode pattern of the file name is S02E05
FirstIsS02E05(name) ==
    \E i \in 1..Len(name) :
       /\ \/ HoldsAt(name, <<"S", "0", "2", "E", "0", "5">>, i)
          \/ HoldsAt(name, <<"s", "0", "2", "e", "0", "5">>, i)
       /\ i + 6 <= Len(name) => name[i + 6] \notin DigitSet
       /\ \A j \in 1..(i - 1) : ~PatternAt(name, j)

\* the hint is 0, or absent
ZeroHint(h) == h \in {<<>>, <<"0">>}

\* the positive hints of the calls and their values
PositiveHint(h) == h \in {<<"3">>, <<"7">>, <<"1", "2">>}
HintNumber(h) == IF h = <<"3">> THEN 3 ELSE IF h = <<"7">> THEN 7 ELSE 12

\* C15: with hints 0/0 and a file name whose pattern is S02E05 the numbers are
\* (2, 5); with two positive hints they are the hints, whatever the file name;
\* with hints 0/0 and a file name without pattern they are (0, 1).
C15_EpisodeIdentifierCases ==
    (call.fn = "episode" /\ result.done) =>
       /\ (ZeroHint(call.season) /\ ZeroHint(call.episode) /\ FirstIsS02E05(call.text))
             => result.numbers = <<2, 5>>
       /\ (PositiveHint(call.season) /\ PositiveHint(call.episode))
             => result.numbers = <<HintNumber(call.season), HintNumber(call.episode)>>
       /\ (/\ ZeroHint(call.season) /\ ZeroHint(call.episode)
           /\ \A i \in 1..Len(call.text) : ~PatternAt(call.text, i))
             => result.numbers = <<0, 1>>

\* the numbers of Show.S02E05.mkv with hints 0/0 have been identified
C15_Witness ==
    /\ call.fn = "episode" /\ result.done
    /\ call.season = <<"0">> /\ call.episode = <<"0">>
    /\ call.text = <<"S", "h", "o", "w", ".", "S", "0", "2", "E", "0", "5", ".", "m", "k", "v">>
    /\ result.numbers = <<2, 5>>

\* C20: _clean_directory_name applied to its own result gives that result.
C20_SanitizerIdempotent ==
    (call.fn = "clean" /\ result.done) =>
       CleanDirectoryName(result.text) = result.text

\* a name with an illegal character and a trailing dot or blank has been cleaned
C20_Witness ==
    /\ call.fn = "clean" /\ result.done
    /\ call.text # <<>>
    /\ \E i \in 1..Len(call.text) : call.text[i] \in illegal_chars
    /\ call.text[Len(call.text)] \in {".", " "}
    /\ result.text # call.text
    /\ result.text # UnknownMedia

\* the state file holds the whole of the snapshot s
Persisted(s) == state_form' = "mapping" /\ state_file' = s

\* the state file is as it was before the step
StateFileKept == state_form' = state_form /\ state_file' = state_file

\* C16: State replacement is atomic and crash-safe: no step of a run changes
\* the previous snapshot, and whatever step a run takes, the last one
\* included (the process killed at any point, the write of the state file
\* too), the state file is afterwards either what it was before the run or
\* the whole of the current snapshot, never a part of a document and never
\* an emptied file.
C16_StateReplacedAtomically ==
    [][(pc # "idle") =>
          /\ (pc' # "idle" => previous_state' = previous_state)
          /\ (StateFileKept \/ Persisted(current_state))]_vars

\* the state file is absent, unreadable or malformed
StateUnusable == state_form \in {"absent", "unreadable", "truncated", "list"}

\* the step ends the process by an error that the main block logs as fatal
FatalEnd == runs' = runs + 1 /\ exit' = "fatal"

\* C17: State absence or corruption is never fatal: with the state file
\* absent, unreadable, not parseable or parseable but not a mapping (and the
\* root directories creatable), the start of a run and its sweep do not end
\* the process with a fatal error, and the run starts from an empty previous
\* snapshot.
C17_StateCorruptionNeverFatal ==
    [][(StateUnusable /\ mkdirPerm /\ pc \in {"idle", "loaded"}) =>
          /\ ~FatalEnd
          /\ (pc' = "loaded" => previous_state' = EmptyMap)]_vars

\* C18: Only configuration failure aborts a run: once the configuration is
\* read, a process that ends has saved the state (or was killed from
\* outside); no error ends it before the state save.
C18_OnlyConfigurationAborts == exit # "fatal"

\* the run at its end was fed what the last run was fed, which completed, and
\* nothing outside the tool has changed since
SecondRun ==
    /\ hist.on
    /\ pc = "save"
    /\ exit = "saved"
    /\ hist.feed = hist.last_feed
    /\ env = hist.last_env

\* C19: Whole-run idempotence: a run that follows a completed run, with the
\* same records in its feed and nothing changed on the disk in between, has
\* created, replaced and deleted nothing in the output tree, and the snapshot
\* it is about to save is the one the first run saved.
C19_SecondRunChangesNothing ==
    SecondRun => (hist.quiet /\ SaveState(current_state) = state_file)

\* a symbolic link is at target_dir/<filename_base><ext>, for an extension of the
\* candidate list, and its target is not the resolved source
ConflictingLink(f, target_dir, filename_base, resolved_path) ==
    \E i \in 1..Len(collision_suffixes) :
       LET p == OutPath(target_dir, filename_base \o collision_suffixes[i])
       IN  /\ p \in DOMAIN f
           /\ f[p].kind = "link"
           /\ f[p].target # resolved_path

\* the base the collision rule gives the record
RuleBase(f, data, resolved_path, t) ==
    IF ConflictingLink(f, t.dir, t.base, resolved_path)
    THEN t.base \o Dash \o data.MediaFileID
    ELSE t.base

\* C21: Collision rule: for a record with no memoized base the final base is
\* the default base with the identity key appended exactly when a symbolic
\* link whose target differs from the resolved source is at the default base
\* with an extension of the candidate list, and the default base otherwise.
C21_CollisionRule ==
    pc = "records" =>
       \A data \in Writable :
          GetResolvedFilenameBase(data.MediaFileID) = <<>> =>
             Call(data).args.base =
                RuleBase(Call(data).before.fs, data, Call(data).resolved_path,
                         Target(data, Call(data).resolved_path))

\* a season and episode pattern starts somewhere in the file name
HasPattern(name) == \E i \in 1..Len(name) : PatternAt(name, i)

\* the primary tier applies: both hints are positive integers
PrimaryApplies == PositiveHint(call.season) /\ PositiveHint(call.episode)

\* the fallback tier yields a pair: both hints zero or absent, and a pattern in
\* the file name
FallbackYields ==
    ZeroHint(call.season) /\ ZeroHint(call.episode) /\ HasPattern(call.text)

\* C22: Episode Identifier default tier: when the two hints are not both
\* positive integers, and they are not both zero or absent or the file name
\* has no pattern, the numbers are season 0, episode 1; so with hints (3, 0).
C22_DefaultTier ==
    (call.fn = "episode" /\ result.done) =>
       ((~PrimaryApplies /\ ~FallbackYields) => result.numbers = <<0, 1>>)

\* C23: Filename pattern separators: with hints (0,0) the fallback finds
\* S<digits>E<digits>, in either case, with an optional dot, dash or space
\* between each letter and its digits and between the two halves (S01E02,
\* s01.e02, S01-E02, S 01 E 02, S.01.E.02), and returns the parsed pair.
C23_SeparatorsRecognized ==
    (/\ call.fn = "episode" /\ result.done
     /\ ZeroHint(call.season) /\ ZeroHint(call.episode)
     /\ call.text \in SeparatedNames)
       => result.numbers = <<1, 2>>

\* C24: Per-record failure isolation: no step of the for loop over the records
\* of a page ends the run by an error; when the processing of one record
\* fails the loop goes on to the later records and pages and the run gets to
\* save the state.
C24_RecordFailureIsolated ==
    [][pc = "records" => ~FatalEnd]_vars

\* one step of a run as the pagination contract has it: the first page is
\* asked for at offset 0 and each next one PAGE_SIZE further, only after a
\* full page; a fetch that fails or brings no record leads to the state save;
\* the for loop leaves a page only when every record of it has been taken up,
\* so that the records processed are those of all the pages fetched; a page
\* shorter than PAGE_SIZE leads to the state save and to no further fetch
PaginationStep ==
    /\ pc = "swept" => start = 0
    /\ pc = "fetch" =>
          /\ page_len = PAGE_SIZE
          /\ start = Cardinality(seen)
          /\ start % PAGE_SIZE = 0
    /\ pc \in {"swept", "fetch"} =>
          /\ pc' \in {"records", "save"}
          /\ start' = start
          /\ pc' = "records" => (page_len' \in 1..PAGE_SIZE /\ idx' = 1)
          /\ pc' = "save" => seen' = seen
    /\ (pc = "records" /\ pc' = "records") =>
          /\ idx < page_len /\ idx' = idx + 1
          /\ Cardinality(seen') = Cardinality(seen) + 1
    /\ (pc = "records" /\ pc' # "records") =>
          /\ idx = page_len
          /\ Cardinality(seen') = start + page_len
          /\ IF page_len = PAGE_SIZE
             THEN pc' = "fetch" /\ start' = start + PAGE_SIZE
             ELSE pc' = "save"
    /\ pc = "save" =>
          /\ pc' = "idle"
          /\ state_file' = SaveState(current_state)

\* the step is the end of a process that was killed
KilledEnd == runs' = runs + 1 /\ exit' = "killed"

\* C25: Pagination loop: pages are fetched at offsets 0, PAGE_SIZE,
\* 2 * PAGE_SIZE, ..., no page is fetched after one that fails, is empty or
\* is short, every record of the pages fetched is processed, and the run then
\* saves the state, unless the process is killed.
C25_EveryFetchedRecordProcessed ==
    [][~KilledEnd => PaginationStep]_vars

\* the same of the runs that no error ends
PaginationButForErrors ==
    [][(~KilledEnd /\ ~FatalEnd) => PaginationStep]_vars

\* the i-th file that the fallback chain of the declared path p probes
Probe(p, i) == [p EXCEPT !.ext = common_extensions[i]]

\* r is what the fallback chain of the declared path p comes to: the first
\* probe that exists, or nothing when none does
ChainResult(p, r) ==
    IF \A i \in DOMAIN common_extensions : Probe(p, i) \notin srcFiles
    THEN r = NoPath
    ELSE \E i \in DOMAIN common_extensions :
            /\ r = Probe(p, i)
            /\ r \in srcFiles
            /\ \A j \in 1..(i - 1) : Probe(p, j) \notin srcFiles

\* the iteration of the for loop has made nothing: no link, no sidecar, no
\* directory, no state entry
Skipped == result.world = World

\* C26 as stated: Source resolution fallback chain: the resolved source is
\* the declared path when a file is there, else the first existing file of
\* the same directory and stem with an extension of the alternate list, in
\* the order of the list, whatever the declared path; the record is
\* unresolvable only when none of these files exists, and it is then skipped.
C26_FallbackChainAlways ==
    (call.fn = "resolve" /\ result.done) =>
        /\ call.path \in srcFiles => result.path = call.path
        /\ call.path \notin srcFiles => ChainResult(call.path, result.path)
        /\ result.path = NoPath => Skipped

\* the declared path is one that the fallback chain is tried for
Probed(p) == p.absolute /\ p.stem # <<>>

\* C26: Source resolution fallback chain: the resolved source is the declared
\* path when a file is there; else, when the declared path is absolute and
\* has a stem, the first existing file of the same directory and stem with
\* an extension of the alternate list, in the order of the list, and
\* unresolvable when none of these exists; else, when the declared path is
\* relative or has no stem, unresolvable without any probe. An unresolvable
\* record is skipped: no link, sidecar or state entry is made.
C26_FallbackChain ==
    (call.fn = "resolve" /\ result.done) =>
        /\ call.path \in srcFiles => result.path = call.path
        /\ (call.path \notin srcFiles /\ Probed(call.path)) =>
              ChainResult(call.path, result.path)
        /\ (call.path \notin srcFiles /\ ~Probed(call.path)) =>
              result.path = NoPath
        /\ result.path = NoPath => Skipped

\* the declared .mpg file is gone, the .mkv and the .avi of the same stem
\* exist, and the record is resolved to the .mkv and linked
C26_Witness ==
    /\ call.fn = "resolve" /\ result.done
    /\ call.path = Src(StemSE, Mpg)
    /\ call.path \notin srcFiles
    /\ {Src(StemSE, Mkv), Src(StemSE, Avi)} \subseteq srcFiles
    /\ result.path = Src(StemSE, Mkv)
    /\ ~Skipped

\* the run is past its sweep (line 610) and has not yet saved
Swept == pc \in {"swept", "fetch", "records", "save"}

\* the step is an iteration of the for loop over the records of a page
ProcessStep == pc = "records" /\ pc' # "idle"

\* the step is the save of the new snapshot
SaveStep == pc = "save" /\ pc' = "idle"

\* C27 as stated: Run ordering: the state is loaded first, the records of
\* the fetched pages are processed next, the sweep comes only after the last
\* record has been processed, and the snapshot is persisted after the sweep:
\* no record is processed in a run that has swept already.
C27_SweepAfterLastRecord ==
    [][/\ SweepStep => pc = "loaded"
       /\ ProcessStep => ~Swept
       /\ SaveStep => Swept]_vars

\* C27: Run ordering: the state is loaded first; the sweep comes next, before
\* any page is fetched and any record is processed, and removes only paths
\* of the previous snapshot; the records of the fetched pages are processed
\* after the sweep, with the previous snapshot and the state file left as
\* they are; the new snapshot is persisted after the last record.
C27_RunOrdering ==
    [][/\ (pc = "idle" /\ pc' # "idle") =>
             /\ pc' = "loaded"
             /\ previous_state' = LoadState
             /\ fs' = fs
       /\ pc = "loaded" =>
             /\ SweepStep
             /\ seen = {} /\ current_state = EmptyMap
             /\ previous_state' = previous_state
             /\ \A p \in DOMAIN fs \ DOMAIN fs' :
                   \E k \in Tracked : p \in {previous_state[k].link_path,
                                              previous_state[k].nfo_path}
       /\ pc \in {"swept", "fetch", "records"} =>
             /\ pc' \in {"fetch", "records", "save"}
             /\ previous_state' = previous_state
             /\ state_file' = state_file
       /\ pc = "save" =>
             /\ SaveStep
             /\ state_file' = SaveState(current_state)
             /\ fs' = fs]_vars

\* a run that loaded a snapshot and swept against it has then processed a
\* record and is about to save
C27_Witness ==
    /\ pc = "save"
    /\ previous_state # EmptyMap
    /\ current_state # EmptyMap
    /\ seen # {}

\* the link at p is dangling and no record of the saved snapshot has it as
\* its link: no sweep of a later run looks at it
Orphaned(p) ==
    /\ Dangling(fs, p)
    /\ \A k \in DOMAIN state_file : state_file[k].link_path # p

\* C28: No orphaned artifacts: between two runs, once a run has saved, no
\* link that the tool created is on disk with its source gone and without a
\* record in the saved snapshot, since no later run would remove it.
C28_NoOrphanedLinks ==
    (pc = "idle" /\ exit = "saved") => \A p \in DOMAIN fs : ~Orphaned(p)

====
